---- MODULE Spec2Model ----
(***************************************************************************)
(* Model of the Hednet multi-node dashboard (bot.py): the orchestrator     *)
(* main(), the per-account worker node_worker() driving the asynchronous   *)
(* generator run_node(), the metric extraction extract_points(), the       *)
(* shared status map table_rows and the table published to the renderer.   *)
(***************************************************************************)
EXTENDS Integers, Sequences, FiniteSets, TLC

\* ------------------------------------------------------------------ bounds
\* wall-clock readings datetime.now() can take: 0..MaxTime
MaxTime == 1
\* largest metric the dashboard shows
MaxPoints == 1

\* ------------------------------------------------------------ input data
\* Strings the code transforms are sequences of characters.
IdA == <<"a", "_", "b", "@", "c">>
IdB == <<"a", "@", "b", "_", "c">>
IdD == <<"d", "@", "e">>
HeaderCell == <<"e", "m", "a", "i", "l">>
Pwd == <<"p">>

\* Contents of the accounts CSV: a sequence of rows, a row a sequence of cells.
AccountFiles ==
    { [exists |-> FALSE, rows |-> <<>>],
      [exists |-> TRUE,  rows |-> <<>>],
      [exists |-> TRUE,  rows |-> << <<HeaderCell, Pwd>>, <<>> >>],
      [exists |-> TRUE,  rows |-> << <<HeaderCell, Pwd>>, <<IdD, Pwd>>, <<>> >>],
      [exists |-> TRUE,  rows |-> << <<IdA, Pwd>>, <<IdB>> >>],
      [exists |-> TRUE,  rows |-> << <<IdA, Pwd>>, <<IdA, Pwd>> >>] }

\* Contents of the proxies file: stripped lines ("" is a blank line).
ProxyFiles ==
    { [exists |-> FALSE, lines |-> <<>>],
      [exists |-> TRUE,  lines |-> <<"http://p0:1", "", "http://p1:1">>] }

\* What page.evaluate() of the extraction script can give back: null, the
\* digit run of the first matching element, or an exception: one of this
\* evaluation only (Raise), or that of a browser that has died (Dead).
Null == <<"null">>
Raise == <<"raise">>
Dead == <<"dead">>
Digits == <<"0", "1", "2", "3", "4", "5", "6", "7", "8", "9">>
DigitStrings == { <<Digits[d + 1]>> : d \in 0..MaxPoints }
EvalResults == {Null, Raise, Dead} \cup DigitStrings
NotRun == <<"none">>

\* ------------------------------------------------------------ pure helpers
DigitVal(c) == CHOOSE d \in 0..9 : Digits[d + 1] = c

\* int(s) for a string of decimal digits
RECURSIVE PyInt(_)
PyInt(s) ==
    IF s = <<>> THEN 0
    ELSE 10 * PyInt(SubSeq(s, 1, Len(s) - 1)) + DigitVal(s[Len(s)])

\* str(n) for n >= 0
RECURSIVE PyStr(_)
PyStr(n) ==
    IF n < 10 THEN <<Digits[n + 1]>>
    ELSE PyStr(n \div 10) \o <<Digits[(n % 10) + 1]>>

\* email.replace('@', '_')
ReplaceAt(s) == [i \in 1..Len(s) |-> IF s[i] = "@" THEN "_" ELSE s[i]]

\* state_file = f"storage_state_{account['email'].replace('@','_')}.json"
state_file(email) == <<"storage_state_">> \o ReplaceAt(email) \o <<".json">>

\* extract_points: the evaluation's result, or 0 on null or on any exception
extract_points_nonzero(res) ==
    IF res \in {Raise, Dead} THEN 1
    ELSE IF res = Null THEN 1 ELSE PyInt(res)

extract_points(res) ==
    IF res \in {Raise, Dead} THEN 0
    ELSE IF res = Null THEN 0 ELSE PyInt(res)

\* the accounts loop of main: blank rows and the header row are skipped
IsAccountRow(row) == ~(row = <<>> \/ row[1] = HeaderCell)

LoadAccounts(rows) ==
    LET kept == SelectSeq(rows, IsAccountRow)
    IN  [i \in 1..Len(kept) |->
            [email |-> kept[i][1],
             password |-> IF Len(kept[i]) > 1 THEN kept[i][2] ELSE <<>>]]

\* the proxies loop of main: a missing file or blank lines give no proxy
IsProxyLine(ln) == ln # ""

LoadProxies(file) ==
    IF file.exists THEN SelectSeq(file.lines, IsProxyLine) ELSE <<>>

NoProxy == "None"

\* the index is clamped to the list instead of wrapping round
assignNoWrap(idx, proxies) ==
    IF proxies # <<>>
    THEN proxies[IF idx < Len(proxies) THEN idx + 1 ELSE Len(proxies)]
    ELSE NoProxy

\* proxy = proxies[idx % len(proxies)] if proxies else None   (idx from 0)
assign(idx, proxies) ==
    IF proxies # <<>> THEN proxies[(idx % Len(proxies)) + 1] ELSE NoProxy

\* the label without the "N/A" default
ProxyLabelRaw(proxy) == proxy

\* proxy_server or "N/A"
ProxyLabel(proxy) == IF proxy = NoProxy THEN "N/A" ELSE proxy

\* ------------------------------------------------------------- status map
\* table_rows is a dict: a sequence of key/value pairs in insertion order.
DictHas(d, k) == \E i \in 1..Len(d) : d[i].key = k

DictGet(d, k) == d[CHOOSE i \in 1..Len(d) : d[i].key = k].val

\* d[k] = v keeps only some fields of v when the key is already present
DictSetMerge(d, k, v) ==
    IF DictHas(d, k)
    THEN [i \in 1..Len(d) |->
            IF d[i].key = k
            THEN [key |-> k, val |-> [d[i].val EXCEPT !.points = v.points,
                                                      !.status = v.status]]
            ELSE d[i]]
    ELSE Append(d, [key |-> k, val |-> v])

\* d[k] = v kept as one more entry, the old one staying
DictSetAppend(d, k, v) == Append(d, [key |-> k, val |-> v])

\* d[k] = v
DictSet(d, k, v) ==
    IF DictHas(d, k)
    THEN [i \in 1..Len(d) |-> IF d[i].key = k THEN [key |-> k, val |-> v] ELSE d[i]]
    ELSE Append(d, [key |-> k, val |-> v])

Active == "Active"
TimeoutTag == "Timeout/Error"

\* f"Error: {str(e)}", the text of the exception being that of the failed step
ErrorTag(stage) ==
    CASE stage = "launch"   -> "Error: launch"
      [] stage = "context"  -> "Error: context"
      [] stage = "navigate" -> "Error: navigate"
      [] stage = "save"     -> "Error: save"

FailureTags == {TimeoutTag} \cup { ErrorTag(s) : s \in {"launch", "context", "navigate", "save"} }

NoRecord == [email |-> <<>>, proxy |-> "", points |-> 0, status |-> "", last |-> 0]

\* one row of make_table
TableRow(info) ==
    [email |-> info.email,
     proxy |-> info.proxy,
     points_text |-> [text |-> PyStr(info.points),
                      style |-> IF info.points > 0 THEN "green" ELSE "plain"],
     status |-> info.status,
     last |-> info.last]

\* make_table: one row per value of table_rows, in the dict's order
make_table(d) == [i \in 1..Len(d) |-> TableRow(d[i].val)]

\* ------------------------------------------------------------------ state
VARIABLES
    args,        \* the command line: the accounts file, the proxies file, the script
    opc,         \* where main() is
    accounts,    \* the loaded accounts
    proxyOf,     \* proxyOf[w]: the proxy given to worker w
    pc,          \* pc[w]: where run_node of worker w is suspended
    engine,      \* engine[w]: worker w holds a playwright driver / browser
    fail,        \* fail[w]: the exception that ended the session of worker w
    restored,    \* restored[w]: whose saved state seeded the context of worker w
    store,       \* the storage-state files on disk
    table_rows,  \* the shared status map
    published,   \* the table last handed to Live
    now,         \* the last reading of the wall clock
    lastEval,    \* lastEval[w]: result of the last page.evaluate of extract_points
    lastEmit,    \* lastEmit[w]: the record worker w yielded last
    emits,       \* emits[w]: how many records worker w has yielded: 0, 1 or Many
    script,      \* script[w]: how the optional script of the session went, if run
    saved        \* saved[w]: the session has written its storage-state file

vars == <<args, opc, accounts, proxyOf, pc, engine, fail, restored,
          store, table_rows, published, now, lastEval, lastEmit, emits, script, saved>>

Workers == 1..Len(accounts)

\* two or more
Many == 2

NoFail == [stage |-> "none", kind |-> "none"]
NoOwner == <<>>

Init ==
    /\ args \in [accounts : AccountFiles, proxies : ProxyFiles, script : BOOLEAN]
    /\ opc = "start"
    /\ accounts = <<>>
    /\ proxyOf = <<>>
    /\ pc = <<>>
    /\ engine = <<>>
    /\ fail = <<>>
    /\ restored = <<>>
    /\ store = {}
    /\ table_rows = <<>>
    /\ published = <<>>
    /\ now = 0
    /\ lastEval = <<>>
    /\ lastEmit = <<>>
    /\ emits = <<>>
    /\ script = <<>>
    /\ saved = <<>>

\* main without its two early returns: the tasks are built from whatever loaded
main_start_no_abort ==
    /\ opc = "start"
    /\ LET accs == IF args.accounts.exists THEN LoadAccounts(args.accounts.rows) ELSE <<>>
           prox == LoadProxies(args.proxies)
           n    == Len(accs)
       IN  /\ opc' = "gather"
           /\ accounts' = accs
           /\ proxyOf' = [w \in 1..n |-> assign(w - 1, prox)]
           /\ pc' = [w \in 1..n |-> "launching"]
           /\ engine' = [w \in 1..n |-> FALSE]
           /\ fail' = [w \in 1..n |-> NoFail]
           /\ restored' = [w \in 1..n |-> NoOwner]
           /\ lastEval' = [w \in 1..n |-> NotRun]
           /\ lastEmit' = [w \in 1..n |-> NoRecord]
           /\ emits' = [w \in 1..n |-> 0]
           /\ script' = [w \in 1..n |-> "none"]
           /\ saved' = [w \in 1..n |-> FALSE]
           /\ published' = make_table(<<>>)
    /\ UNCHANGED <<args, store, table_rows, now>>

\* ------------------------------------------------------------ main: start
\* main up to the gather: load the accounts (abort when the file is missing
\* or gives none), load the proxies, build one node_worker per account,
\* create the empty table_rows, give Live the first table, start the tasks.
main_start ==
    /\ opc = "start"
    /\ LET accs == IF args.accounts.exists THEN LoadAccounts(args.accounts.rows) ELSE <<>>
           prox == LoadProxies(args.proxies)
           n    == Len(accs)
       IN  IF accs = <<>>
           THEN /\ opc' = "aborted"
                /\ UNCHANGED <<accounts, proxyOf, pc, engine, fail, restored,
                               lastEval, lastEmit, emits, published, script, saved>>
           ELSE /\ opc' = "gather"
                /\ accounts' = accs
                /\ proxyOf' = [w \in 1..n |-> assign(w - 1, prox)]
                /\ pc' = [w \in 1..n |-> "launching"]
                /\ engine' = [w \in 1..n |-> FALSE]
                /\ fail' = [w \in 1..n |-> NoFail]
                /\ restored' = [w \in 1..n |-> NoOwner]
                /\ lastEval' = [w \in 1..n |-> NotRun]
                /\ lastEmit' = [w \in 1..n |-> NoRecord]
                /\ emits' = [w \in 1..n |-> 0]
                /\ script' = [w \in 1..n |-> "none"]
                /\ saved' = [w \in 1..n |-> FALSE]
                /\ published' = make_table(<<>>)
    /\ UNCHANGED <<args, store, table_rows, now>>

\* ------------------------------------------------------- run_node, by step
Running(w) == opc = "gather" /\ w \in Workers

\* an exception raised inside the "async with": the block is left (the
\* playwright driver is stopped) before the except clause runs
Throw(w, stage, kind) ==
    /\ fail' = [fail EXCEPT ![w] = [stage |-> stage, kind |-> kind]]
    /\ pc' = [pc EXCEPT ![w] = "teardown"]

\* datetime.now().strftime("%H:%M:%S") at the yield: time has gone on to t
StatusRecord(w, points, status, t) ==
    [email |-> accounts[w].email,
     proxy |-> ProxyLabel(proxyOf[w]),
     points |-> points,
     status |-> status,
     last |-> t]

\* node_worker: table_rows[account['email']] = node_info
Yield(w, info) ==
    /\ table_rows' = DictSet(table_rows, accounts[w].email, info)
    /\ lastEmit' = [lastEmit EXCEPT ![w] = info]
    /\ emits' = [emits EXCEPT ![w] = IF @ = 0 THEN 1 ELSE Many]
    /\ now' = info.last

\* async_playwright(), the proxy setup and chromium.launch
Launch(w) ==
    /\ Running(w)
    /\ pc[w] = "launching"
    /\ engine' = [engine EXCEPT ![w] = TRUE]
    /\ \E outcome \in {"ok", "timeout", "error"} :
          IF outcome = "ok"
          THEN pc' = [pc EXCEPT ![w] = "context"] /\ UNCHANGED fail
          ELSE Throw(w, "launch", outcome)
    /\ UNCHANGED <<args, opc, accounts, proxyOf, restored, store,
                   table_rows, published, now, lastEval, lastEmit, emits, script, saved>>

StoreHas(file) == \E f \in store : f.file = file

StoreOwner(file) == (CHOOSE f \in store : f.file = file).owner

\* browser.new_context(), seeded from the state file when there is one
NewContext(w) ==
    /\ Running(w)
    /\ pc[w] = "context"
    /\ \E outcome \in {"ok", "error"} :
          IF outcome = "ok"
          THEN /\ pc' = [pc EXCEPT ![w] = "navigating"]
               /\ restored' = [restored EXCEPT ![w] =
                                 IF StoreHas(state_file(accounts[w].email))
                                 THEN StoreOwner(state_file(accounts[w].email))
                                 ELSE NoOwner]
               /\ UNCHANGED fail
          ELSE Throw(w, "context", "error") /\ UNCHANGED restored
    /\ UNCHANGED <<args, opc, accounts, proxyOf, engine, store,
                   table_rows, published, now, lastEval, lastEmit, emits, script, saved>>

\* page.goto(dashboard, timeout=60000) and the 5 s wait after it
Navigate(w) ==
    /\ Running(w)
    /\ pc[w] = "navigating"
    /\ \E outcome \in {"ok", "timeout", "error"} :
          IF outcome = "ok"
          THEN /\ pc' = [pc EXCEPT ![w] = IF args.script THEN "script" ELSE "saving"]
               /\ UNCHANGED fail
          ELSE Throw(w, "navigate", outcome)
    /\ UNCHANGED <<args, opc, accounts, proxyOf, engine, restored, store,
                   table_rows, published, now, lastEval, lastEmit, emits, script, saved>>

\* the exception of the script is not caught and ends the session
RunScriptFatal(w) ==
    /\ Running(w)
    /\ pc[w] = "script"
    /\ \E outcome \in {"ok", "failed"} :
          /\ script' = [script EXCEPT ![w] = outcome]
          /\ IF outcome = "ok"
             THEN pc' = [pc EXCEPT ![w] = "saving"] /\ UNCHANGED fail
             ELSE Throw(w, "navigate", "error")
    /\ UNCHANGED <<args, opc, accounts, proxyOf, engine, restored, store,
                   table_rows, published, now, lastEval, lastEmit, emits, saved>>

\* the optional script: page.evaluate(js_code); its exception is only logged
RunScript(w) ==
    /\ Running(w)
    /\ pc[w] = "script"
    /\ \E outcome \in {"ok", "failed"} :
          script' = [script EXCEPT ![w] = outcome]
    /\ pc' = [pc EXCEPT ![w] = "saving"]
    /\ UNCHANGED <<args, opc, accounts, proxyOf, engine, fail, restored, store,
                   table_rows, published, now, lastEval, lastEmit, emits, saved>>

\* the save is best-effort like the script: its exception is only logged
SaveStateBestEffort(w) ==
    /\ Running(w)
    /\ pc[w] = "saving"
    /\ \E outcome \in {"ok", "error"} :
          IF outcome = "ok"
          THEN /\ store' = { f \in store : f.file # state_file(accounts[w].email) }
                             \cup { [file |-> state_file(accounts[w].email),
                                     owner |-> accounts[w].email] }
               /\ saved' = [saved EXCEPT ![w] = TRUE]
          ELSE UNCHANGED <<store, saved>>
    /\ pc' = [pc EXCEPT ![w] = "extract"]
    /\ UNCHANGED <<args, opc, accounts, proxyOf, engine, fail, restored,
                   table_rows, published, now, lastEval, lastEmit, emits, script>>

\* context.storage_state(path=state_file)
SaveState(w) ==
    /\ Running(w)
    /\ pc[w] = "saving"
    /\ \E outcome \in {"ok", "error"} :
          IF outcome = "ok"
          THEN /\ pc' = [pc EXCEPT ![w] = "extract"]
               /\ store' = { f \in store : f.file # state_file(accounts[w].email) }
                             \cup { [file |-> state_file(accounts[w].email),
                                     owner |-> accounts[w].email] }
               /\ saved' = [saved EXCEPT ![w] = TRUE]
               /\ UNCHANGED fail
          ELSE Throw(w, "save", "error") /\ UNCHANGED <<store, saved>>
    /\ UNCHANGED <<args, opc, accounts, proxyOf, engine, restored,
                   table_rows, published, now, lastEval, lastEmit, emits, script>>

\* the browser of worker w was found dead by the last evaluation
crashed(w) == lastEval[w] = Dead

\* the loop reports an evaluation that raised with the timeout status
PollTagsFailure(w) ==
    /\ Running(w)
    /\ pc[w] = "extract"
    /\ \E res \in (IF crashed(w) THEN {Dead} ELSE EvalResults) :
       \E t \in now..MaxTime :
          /\ lastEval' = [lastEval EXCEPT ![w] = res]
          /\ Yield(w, StatusRecord(w, extract_points(res),
                                   IF res \in {Raise, Dead} THEN TimeoutTag ELSE Active, t))
    /\ pc' = [pc EXCEPT ![w] = "sleep"]
    /\ UNCHANGED <<args, opc, accounts, proxyOf, engine, fail, restored,
                   store, published, script, saved>>

\* one turn of the node loop up to the sleep: extract_points, the yield of
\* the Active record and node_worker's write of it; a dead browser stays dead
Poll(w) ==
    /\ Running(w)
    /\ pc[w] = "extract"
    /\ \E res \in (IF crashed(w) THEN {Dead} ELSE EvalResults) :
       \E t \in now..MaxTime :
          /\ lastEval' = [lastEval EXCEPT ![w] = res]
          /\ Yield(w, StatusRecord(w, extract_points(res), Active, t))
    /\ pc' = [pc EXCEPT ![w] = "sleep"]
    /\ UNCHANGED <<args, opc, accounts, proxyOf, engine, fail, restored,
                   store, published, script, saved>>

\* asyncio.sleep(CHECK_INTERVAL) is over
Wake(w) ==
    /\ Running(w)
    /\ pc[w] = "sleep"
    /\ pc' = [pc EXCEPT ![w] = "extract"]
    /\ UNCHANGED <<args, opc, accounts, proxyOf, engine, fail, restored, store,
                   table_rows, published, now, lastEval, lastEmit, emits, script, saved>>

\* the status of the except clause that catches the exception
FailureStatusOneClause(f) == ErrorTag(f.stage)

\* the status chosen by the stage that failed
FailureStatusByStage(f) == IF f.stage = "navigate" THEN TimeoutTag ELSE ErrorTag(f.stage)

FailureStatus(f) == IF f.kind = "timeout" THEN TimeoutTag ELSE ErrorTag(f.stage)

\* the exception leaves run_node uncaught: gather hands it to main, which ends
TeardownPropagates(w) ==
    /\ Running(w)
    /\ pc[w] = "teardown"
    /\ engine' = [engine EXCEPT ![w] = FALSE]
    /\ pc' = [pc EXCEPT ![w] = "done"]
    /\ opc' = "cancelling"
    /\ UNCHANGED <<args, accounts, proxyOf, fail, restored, store,
                   table_rows, published, now, lastEval, lastEmit, emits, script, saved>>

\* the except clauses sit inside the "async with": the record is yielded
\* while the driver is still up
TeardownYieldsFirst(w) ==
    /\ Running(w)
    /\ pc[w] = "teardown"
    /\ \E t \in now..MaxTime :
          Yield(w, StatusRecord(w, 0, FailureStatus(fail[w]), t))
    /\ pc' = [pc EXCEPT ![w] = "done"]
    /\ UNCHANGED <<args, opc, accounts, proxyOf, engine, fail, restored, store,
                   published, lastEval, script, saved>>

\* the end of a failed session: the "async with" exit stops the driver, then
\* the except clause yields the failure record, node_worker writes it and
\* the generator is exhausted
Teardown(w) ==
    /\ Running(w)
    /\ pc[w] = "teardown"
    /\ engine' = [engine EXCEPT ![w] = FALSE]
    /\ \E t \in now..MaxTime :
          Yield(w, StatusRecord(w, 0, FailureStatus(fail[w]), t))
    /\ pc' = [pc EXCEPT ![w] = "done"]
    /\ UNCHANGED <<args, opc, accounts, proxyOf, fail, restored, store,
                   published, lastEval, script, saved>>

\* ------------------------------------------------- main: after the gather
Terminal == {"done", "cancelled"}

\* asyncio.gather returns when every worker task has ended
GatherReturn ==
    /\ opc = "gather"
    /\ \A w \in Workers : pc[w] = "done"
    /\ opc' = "render"
    /\ UNCHANGED <<args, accounts, proxyOf, pc, engine, fail, restored, store,
                   table_rows, published, now, lastEval, lastEmit, emits, script, saved>>

\* the snapshot empties the status map it has read
RenderConsumes ==
    /\ opc = "render"
    /\ published' = make_table(table_rows)
    /\ table_rows' = <<>>
    /\ UNCHANGED <<args, opc, accounts, proxyOf, pc, engine, fail, restored,
                   store, now, lastEval, lastEmit, emits, script, saved>>

\* one turn of the loop after the gather: live.update(make_table())
Render ==
    /\ opc = "render"
    /\ published' = make_table(table_rows)
    /\ UNCHANGED <<args, opc, accounts, proxyOf, pc, engine, fail, restored,
                   store, table_rows, now, lastEval, lastEmit, emits, script, saved>>

\* KeyboardInterrupt: asyncio.run cancels main, and the gather its tasks
Interrupt ==
    /\ opc \in {"gather", "render"}
    /\ opc' = "cancelling"
    /\ UNCHANGED <<args, accounts, proxyOf, pc, engine, fail, restored, store,
                   table_rows, published, now, lastEval, lastEmit, emits, script, saved>>

\* CancelledError is swallowed like any exception and the driver stays up
CancelLeaks(w) ==
    /\ opc = "cancelling"
    /\ w \in Workers
    /\ pc[w] \notin Terminal
    /\ pc' = [pc EXCEPT ![w] = "cancelled"]
    /\ UNCHANGED <<args, opc, accounts, proxyOf, engine, fail, restored, store,
                   table_rows, published, now, lastEval, lastEmit, emits, script, saved>>

\* CancelledError raised at the await where worker w is suspended: the
\* "async with" exit stops the driver, no except clause catches it
Cancel(w) ==
    /\ opc = "cancelling"
    /\ w \in Workers
    /\ pc[w] \notin Terminal
    /\ engine' = [engine EXCEPT ![w] = FALSE]
    /\ pc' = [pc EXCEPT ![w] = "cancelled"]
    /\ UNCHANGED <<args, opc, accounts, proxyOf, fail, restored, store,
                   table_rows, published, now, lastEval, lastEmit, emits, script, saved>>

\* asyncio.run returns to the KeyboardInterrupt handler once every task ended
Exit ==
    /\ opc = "cancelling"
    /\ \A w \in Workers : pc[w] \in Terminal
    /\ opc' = "exited"
    /\ UNCHANGED <<args, accounts, proxyOf, pc, engine, fail, restored, store,
                   table_rows, published, now, lastEval, lastEmit, emits, script, saved>>

Next ==
    \/ main_start
    \/ \E w \in Workers : Launch(w)
    \/ \E w \in Workers : NewContext(w)
    \/ \E w \in Workers : Navigate(w)
    \/ \E w \in Workers : RunScript(w)
    \/ \E w \in Workers : SaveState(w)
    \/ \E w \in Workers : Poll(w)
    \/ \E w \in Workers : Wake(w)
    \/ \E w \in Workers : Teardown(w)
    \/ GatherReturn
    \/ Render
    \/ Interrupt
    \/ \E w \in Workers : Cancel(w)
    \/ Exit

Spec == Init /\ [][Next]_vars

\* ---------------------------------------------------------------- fairness
\* The event loop runs every task that is ready, and the operations of the
\* browser all end (with a result, an exception or a timeout); the interrupt
\* and the death of a browser are up to the environment.
MostAccounts ==
    CHOOSE n \in 0..8 :
        /\ \E f \in AccountFiles : Len(LoadAccounts(f.rows)) = n
        /\ \A f \in AccountFiles : Len(LoadAccounts(f.rows)) <= n

WorkerIds == 1..MostAccounts

WorkerStep(w) ==
    \/ Launch(w) \/ NewContext(w) \/ Navigate(w) \/ RunScript(w) \/ SaveState(w)
    \/ Poll(w) \/ Wake(w) \/ Teardown(w) \/ Cancel(w)

FairSpec ==
    /\ Spec
    /\ WF_vars(main_start)
    /\ \A w \in WorkerIds : WF_vars(WorkerStep(w))
    /\ WF_vars(GatherReturn)
    /\ WF_vars(Render)
    /\ WF_vars(Exit)

\* ------------------------------------------------------------------ claims
Identities == {IdA, IdB, IdD}

Stopping == opc \in {"cancelling", "exited"}

PublishedHas(k) == \E i \in 1..Len(published) : published[i].email = k

\* C1: while the process is not shut down, every account that has a record in
\* the status map eventually has a row in a table published to the renderer,
\* also when no worker ever ends.
C1_SnapshotDecoupled ==
    \A k \in Identities :
        DictHas(table_rows, k) ~> (PublishedHas(k) \/ Stopping)

C1_Witness ==
    \E w \in Workers :
        /\ opc = "gather"
        /\ emits[w] = Many
        /\ DictHas(table_rows, accounts[w].email)
        /\ ~PublishedHas(accounts[w].email)

NavigationTimeout == [stage |-> "navigate", kind |-> "timeout"]

\* C2: a session whose navigation timed out yields exactly one record, which
\* is for its account, has the timeout tag and metric 0, and once it is
\* written the session holds no engine; before that it has yielded none.
C2_NavigationTimeoutRecord ==
    \A w \in Workers :
        fail[w] = NavigationTimeout =>
            /\ pc[w] \in {"teardown", "done", "cancelled"}
            /\ pc[w] # "done" => emits[w] = 0
            /\ pc[w] = "done" =>
                  /\ emits[w] = 1
                  /\ lastEmit[w].email = accounts[w].email
                  /\ lastEmit[w].status = TimeoutTag
                  /\ lastEmit[w].points = 0
                  /\ ~engine[w]

C2_Witness ==
    \E w \in Workers :
        /\ fail[w] = NavigationTimeout
        /\ pc[w] = "done"
        /\ DictHas(table_rows, accounts[w].email)
        /\ DictGet(table_rows, accounts[w].email).status = TimeoutTag

Miss == {Null, Raise, Dead}

\* C3: a turn of the node loop always ends in the sleep of the same loop,
\* with no exception pending, and when the extraction found nothing (or its
\* evaluation raised) the record yielded and written is Active with metric 0.
C3_ExtractionMissIsActive ==
    [][\A w \in Workers :
          (opc = "gather" /\ pc[w] = "extract" /\ pc'[w] # "extract") =>
              /\ pc'[w] = "sleep"
              /\ fail'[w] = NoFail
              /\ lastEmit'[w].status = Active
              /\ lastEval'[w] \in Miss =>
                    /\ lastEmit'[w].points = 0
                    /\ DictGet(table_rows', accounts[w].email).status = Active
                    /\ DictGet(table_rows', accounts[w].email).points = 0]_vars

C3_Witness ==
    \E w \in Workers :
        /\ pc[w] = "sleep"
        /\ emits[w] = Many
        /\ lastEval[w] = Null
        /\ DictGet(table_rows, accounts[w].email).status = Active
        /\ DictGet(table_rows, accounts[w].email).points = 0

\* worker w takes a step of its failure path: an exception is raised in its
\* session, or the failed session is torn down and its record written
FailureStep(w) ==
    \/ pc[w] # "teardown" /\ pc'[w] = "teardown"
    \/ pc[w] = "teardown" /\ pc'[w] = "done"

OtherKeysKept(k) ==
    \A j \in Identities \ {k} :
        /\ DictHas(table_rows', j) = DictHas(table_rows, j)
        /\ DictHas(table_rows, j) => DictGet(table_rows', j) = DictGet(table_rows, j)

\* C4: a step of the failure path of one worker leaves main where it is (so
\* every other worker can go on), leaves every other worker's position,
\* engine and last record alone, changes no record under another identity,
\* and the record it writes is stored under its own identity.
C4_FailureIsolation ==
    [][\A w \in Workers :
          FailureStep(w) =>
              /\ opc' = opc
              /\ \A v \in Workers \ {w} :
                    /\ pc'[v] = pc[v]
                    /\ engine'[v] = engine[v]
                    /\ lastEmit'[v] = lastEmit[v]
              /\ OtherKeysKept(accounts[w].email)
              /\ pc'[w] = "done" =>
                    /\ DictGet(table_rows', accounts[w].email) = lastEmit'[w]
                    /\ lastEmit'[w].email = accounts[w].email
                    /\ lastEmit'[w].status \in FailureTags]_vars

C4_Witness ==
    \E w \in Workers : \E v \in Workers :
        /\ accounts[w].email # accounts[v].email
        /\ pc[w] = "done"
        /\ pc[v] = "sleep"
        /\ lastEmit[v].status = Active
        /\ lastEmit[v].last > lastEmit[w].last
        /\ DictGet(table_rows, accounts[w].email).status \in FailureTags
        /\ DictGet(table_rows, accounts[v].email).status = Active

\* C5: once a worker has written its failure record it stays ended, yields
\* nothing more and holds no engine, and the record under its account's key
\* keeps that failure status in every later state.
C5_FailureRecordStays ==
    [][\A w \in Workers :
          pc[w] = "done" =>
              /\ pc'[w] = "done"
              /\ lastEmit'[w] = lastEmit[w]
              /\ ~engine'[w]
              /\ DictGet(table_rows', accounts[w].email).status = lastEmit[w].status]_vars

\* C6: no two workers write the same key of the status map.
C6_SingleWriterPerKey ==
    \A w \in Workers : \A v \in Workers :
        (w # v /\ emits[w] > 0 /\ emits[v] > 0) =>
            accounts[w].email # accounts[v].email

\* C7: the saved state a session is seeded from was saved by a session of the
\* same identity.
C7_NoCrossAccountState ==
    \A w \in Workers : restored[w] \in {NoOwner, accounts[w].email}

\* C8: every record in the status map, and every row of a published table,
\* is as a whole the record last yielded by a worker of that identity.
C8_NoPartialWrites ==
    /\ \A i \in 1..Len(table_rows) :
          \E w \in Workers :
              /\ emits[w] > 0
              /\ accounts[w].email = table_rows[i].key
              /\ table_rows[i].val = lastEmit[w]
    /\ \A i \in 1..Len(published) :
          \E w \in Workers :
              /\ emits[w] > 0
              /\ published[i] = TableRow(lastEmit[w])

C8_Witness ==
    /\ Len(table_rows) > 1
    /\ \A w \in Workers :
          /\ emits[w] = Many
          /\ lastEmit[w].last > 0
          /\ DictGet(table_rows, accounts[w].email) = lastEmit[w]

\* C9: from the interrupt on no record is written; a cancelled session holds
\* no engine; and when the process has exited no session holds one.
C9_Cancellation ==
    /\ [](opc = "exited" => \A w \in Workers : ~engine[w])
    /\ [][Stopping =>
            /\ table_rows' = table_rows
            /\ lastEmit' = lastEmit
            /\ emits' = emits
            /\ \A w \in Workers :
                  (pc[w] # "cancelled" /\ pc'[w] = "cancelled") => ~engine'[w]]_vars

C9_Witness ==
    /\ opc = "exited"
    /\ \E w \in Workers : pc[w] = "cancelled" /\ emits[w] > 0 /\ ~engine[w]
    /\ \E w \in Workers : pc[w] = "cancelled" /\ emits[w] = 0 /\ ~engine[w]

\* C10: a turn of the node loop that finds the browser dead ends the polling:
\* the session goes to its failure path or its record carries a failure status.
C10_EngineFailureFatal ==
    [][\A w \in Workers :
          (opc = "gather" /\ pc[w] = "extract" /\ pc'[w] # "extract" /\ lastEval'[w] = Dead) =>
              \/ pc'[w] = "teardown"
              \/ lastEmit'[w].status \in FailureTags]_vars

\* worker w yields a failure record in this step
YieldsFailure(w) ==
    /\ emits[w] = 0
    /\ emits'[w] = 1
    /\ lastEmit'[w].status \in FailureTags

\* C11 (as claimed): when the final failure record is yielded the session
\* still holds its engine, which is torn down only afterwards.
C11_RecordThenTeardown ==
    [][\A w \in Workers : YieldsFailure(w) => engine'[w]]_vars

\* C11 (amended): the engine of a failed session is torn down first: it is
\* held until the step that yields the failure record, and it is no longer
\* held once that record is written.
C11_TeardownThenRecord ==
    /\ [][\A w \in Workers : YieldsFailure(w) => (engine[w] /\ ~engine'[w])]_vars
    /\ [](\A w \in Workers : lastEmit[w].status \in FailureTags => ~engine[w])

C11_Witness ==
    \E w \in Workers :
        /\ pc[w] = "done"
        /\ fail[w].stage = "save"
        /\ lastEmit[w].status = ErrorTag("save")
        /\ DictGet(table_rows, accounts[w].email) = lastEmit[w]
        /\ ~engine[w]

\* ------------------------------------------------- the proxy assignment
\* The assignment loop of main on longer inputs: up to three accounts, and
\* every proxies file of at most MaxProxyLines lines; the sessions are
\* followed no further than a failed launch and its record.
MaxProxyLines == 3

ProxyLines == {"http://p0:1", "http://p1:1", "http://p2:1", ""}

AssignAccountRows == << <<IdA, Pwd>>, <<IdB, Pwd>>, <<IdD, Pwd>> >>

AssignAccountFiles ==
    { [exists |-> TRUE, rows |-> SubSeq(AssignAccountRows, 1, n)] : n \in 1..3 }

AssignProxyFiles ==
    { [exists |-> FALSE, lines |-> <<>>] }
    \cup { [exists |-> TRUE, lines |-> l] :
             l \in UNION { [1..n -> ProxyLines] : n \in 0..MaxProxyLines } }

AssignInit ==
    /\ args \in [accounts : AssignAccountFiles, proxies : AssignProxyFiles, script : {FALSE}]
    /\ opc = "start"
    /\ accounts = <<>>
    /\ proxyOf = <<>>
    /\ pc = <<>>
    /\ engine = <<>>
    /\ fail = <<>>
    /\ restored = <<>>
    /\ store = {}
    /\ table_rows = <<>>
    /\ published = <<>>
    /\ now = 0
    /\ lastEval = <<>>
    /\ lastEmit = <<>>
    /\ emits = <<>>
    /\ script = <<>>
    /\ saved = <<>>

AssignNext ==
    \/ main_start
    \/ \E w \in Workers : Launch(w)
    \/ \E w \in Workers : Teardown(w)

AssignSpec == AssignInit /\ [][AssignNext]_vars

\* C12: with no proxy line every worker gets no proxy; otherwise the first L
\* workers get the L proxies in order and every later worker the proxy of the
\* worker L places before it (3 accounts and 2 proxies: p0, p1, p0); the
\* label of every record a worker yields is its proxy, or N/A for none.
C12_RoundRobin ==
    LET P == SelectSeq(args.proxies.lines, LAMBDA ln : ln # "")
        L == Len(P)
    IN  /\ \A w \in Workers :
              /\ L = 0 => proxyOf[w] = NoProxy
              /\ (L > 0 /\ w <= L) => proxyOf[w] = P[w]
              /\ (L > 0 /\ w > L) => proxyOf[w] = proxyOf[w - L]
              /\ emits[w] > 0 =>
                    lastEmit[w].proxy = (IF L = 0 THEN "N/A" ELSE proxyOf[w])
        /\ (Len(accounts) = 3 /\ P = <<"http://p0:1", "http://p1:1">>) =>
              proxyOf = <<"http://p0:1", "http://p1:1", "http://p0:1">>

C12_Witness ==
    /\ Len(accounts) = 3
    /\ args.proxies.lines = <<"http://p0:1", "", "http://p1:1">>
    /\ \A w \in Workers : emits[w] > 0
    /\ lastEmit[3].proxy = "http://p0:1"
    /\ lastEmit[2].proxy = "http://p1:1"

\* C13: a session yields Active records, and is in the node loop, only after
\* it has written its storage-state file; the file is written only from the
\* save step of a session with no failure, and is then on disk under the
\* account's email; a session that failed up to its navigation never saves.
C13_SavedBeforePolling ==
    /\ [](\A w \in Workers :
             /\ lastEmit[w].status = Active => saved[w]
             /\ pc[w] \in {"extract", "sleep"} => saved[w]
             /\ fail[w].stage \in {"launch", "context", "navigate"} => ~saved[w])
    /\ [][\A w \in Workers :
             (saved'[w] /\ ~saved[w]) =>
                 /\ pc[w] = "saving"
                 /\ fail[w] = NoFail
                 /\ emits[w] = 0
                 /\ [file |-> state_file(accounts[w].email),
                     owner |-> accounts[w].email] \in store']_vars

C13_Witness ==
    \E w \in Workers :
        /\ pc[w] = "sleep"
        /\ lastEmit[w].status = Active
        /\ saved[w]
        /\ StoreHas(state_file(accounts[w].email))
        /\ \E v \in Workers : fail[v].stage = "navigate" /\ pc[v] = "done" /\ ~saved[v]

\* C14: the script runs only when configured, only from the step after a
\* successful navigation, and once; whether it succeeds or fails, the step
\* leaves the session without a pending exception, on its way to the save,
\* and changes no record.
C14_ScriptBestEffort ==
    /\ [](\A w \in Workers :
             /\ script[w] # "none" =>
                   (args.script /\ fail[w].stage \notin {"launch", "context", "navigate"})
             /\ pc[w] = "script" => (script[w] = "none" /\ fail[w] = NoFail /\ emits[w] = 0))
    /\ [][\A w \in Workers :
             script'[w] # script[w] =>
                 /\ script[w] = "none"
                 /\ pc[w] = "script"
                 /\ pc'[w] = "saving"
                 /\ fail'[w] = NoFail
                 /\ engine'[w] = engine[w]
                 /\ table_rows' = table_rows
                 /\ lastEmit' = lastEmit]_vars

C14_Witness ==
    \E w \in Workers :
        /\ script[w] = "failed"
        /\ pc[w] = "sleep"
        /\ saved[w]
        /\ fail[w] = NoFail
        /\ lastEmit[w].status = Active

\* C15 (as claimed): the tag follows the stage: every failed navigation has
\* the timeout tag and no failed launch has it.
C15_TagByStage ==
    \A w \in Workers :
        pc[w] = "done" =>
            /\ fail[w].stage = "navigate" => lastEmit[w].status = TimeoutTag
            /\ fail[w].stage = "launch" => lastEmit[w].status # TimeoutTag

\* C15 (amended): the tag follows the kind of exception: a timeout, at the
\* launch as at the navigation, has the timeout tag; any other exception has
\* an Error tag with the text of what failed, never the timeout tag.
C15_TagByException ==
    \A w \in Workers :
        pc[w] = "done" =>
            /\ fail[w].kind \in {"timeout", "error"}
            /\ fail[w].kind = "timeout" => lastEmit[w].status = TimeoutTag
            /\ fail[w].kind = "error" =>
                  /\ lastEmit[w].status \in FailureTags \ {TimeoutTag}
                  /\ lastEmit[w].status = ErrorTag(fail[w].stage)

C15_Witness ==
    \E w \in Workers : \E v \in Workers :
        /\ pc[w] = "done" /\ fail[w] = [stage |-> "launch", kind |-> "timeout"]
        /\ pc[v] = "done" /\ fail[v] = [stage |-> "navigate", kind |-> "timeout"]
        /\ lastEmit[w].status = lastEmit[v].status

Started == opc \in {"gather", "render"}

\* C16 (as claimed): from the start on, every loaded account has its record
\* in the status map.
C16_RecordFromStart ==
    Started => \A w \in Workers : DictHas(table_rows, accounts[w].email)

\* C16 (amended): the status map has at most one entry per key; an identity
\* has an entry exactly when a worker of that identity has yielded (so none
\* while its sessions are still launching or navigating); and the entry is
\* the last record yielded for it, nothing of an earlier one being kept.
C16_AtMostOneRecord ==
    /\ \A i \in 1..Len(table_rows) : \A j \in 1..Len(table_rows) :
          table_rows[i].key = table_rows[j].key => i = j
    /\ \A k \in Identities :
          DictHas(table_rows, k) <=>
              \E w \in Workers : accounts[w].email = k /\ emits[w] > 0
    /\ \A w \in Workers :
          (emits[w] > 0 /\ \A v \in Workers \ {w} : accounts[v].email # accounts[w].email) =>
              DictGet(table_rows, accounts[w].email) = lastEmit[w]

C16_Witness ==
    \E w \in Workers : \E v \in Workers :
        /\ pc[w] = "navigating"
        /\ ~DictHas(table_rows, accounts[w].email)
        /\ emits[v] = Many
        /\ Len(table_rows) = 1
        /\ table_rows[1].val = lastEmit[v]

\* the accounts file is missing, or every row of it is blank or the header
NoAccountRows(file) ==
    \/ ~file.exists
    \/ \A i \in 1..Len(file.rows) :
          file.rows[i] = <<>> \/ file.rows[i][1] = HeaderCell

\* C17: with no account to load main ends before any worker exists: no
\* session, no engine, an empty status map; with an account it starts the
\* workers, and with the proxies file missing every worker has no proxy and
\* every record the N/A label.
C17_StartupAbort ==
    /\ NoAccountRows(args.accounts) =>
          /\ opc \in {"start", "aborted"}
          /\ Workers = {}
          /\ pc = <<>>
          /\ engine = <<>>
          /\ table_rows = <<>>
    /\ (~NoAccountRows(args.accounts) /\ opc # "start") =>
          (opc # "aborted" /\ Workers # {})
    /\ ~args.proxies.exists =>
          \A w \in Workers :
              /\ proxyOf[w] = NoProxy
              /\ emits[w] > 0 => lastEmit[w].proxy = "N/A"

C17_Witness ==
    /\ opc = "aborted"
    /\ args.accounts.exists
    /\ Len(args.accounts.rows) > 0
    /\ ~args.proxies.exists

\* C18: a turn of the render loop leaves the status map as it is, gives a
\* table with one row per entry in the map's order, and gives the table of
\* the turn before when that one was taken from the same map.
C18_SnapshotIdempotent ==
    [][(opc = "render" /\ opc' = "render") =>
          /\ table_rows' = table_rows
          /\ lastEmit' = lastEmit
          /\ Len(published') = Len(table_rows)
          /\ \A i \in 1..Len(table_rows) : published'[i].email = table_rows[i].key
          /\ published = make_table(table_rows) => published' = published]_vars

C18_Witness ==
    /\ opc = "render"
    /\ Len(published) = 2
    /\ published = make_table(table_rows)

\* C19: a worker that has yielded twice or more has yielded Active records
\* only, a failure record is the only record of its worker, and a record
\* that follows another of the same worker follows an Active one and is
\* Active.
C19_ActiveRunOrOneFailure ==
    /\ [](\A w \in Workers :
             /\ emits[w] = Many => lastEmit[w].status = Active
             /\ lastEmit[w].status \in FailureTags => emits[w] = 1
             /\ emits[w] > 0 => lastEmit[w].status \in FailureTags \cup {Active})
    /\ [][\A w \in Workers :
             (emits[w] > 0 /\ (lastEmit'[w] # lastEmit[w] \/ emits'[w] # emits[w])) =>
                 /\ lastEmit[w].status = Active
                 /\ lastEmit'[w].status = Active]_vars

C19_Witness ==
    \E w \in Workers : \E v \in Workers :
        /\ emits[w] = Many
        /\ lastEval[w] = Raise
        /\ lastEmit[w].status = Active
        /\ emits[v] = 1
        /\ lastEmit[v].status \in FailureTags

\* C20: every entry of the status map has the key as its email, the label of
\* the proxy given at startup to a worker of that identity (N/A for none), a
\* natural number as metric, and metric 0 unless its status is Active.
C20_RecordWellFormed ==
    \A i \in 1..Len(table_rows) :
        LET k == table_rows[i].key
            r == table_rows[i].val
        IN  /\ r.email = k
            /\ \E w \in Workers :
                  /\ accounts[w].email = k
                  /\ r.proxy = (IF proxyOf[w] = NoProxy THEN "N/A" ELSE proxyOf[w])
            /\ r.points \in Nat
            /\ r.status # Active => r.points = 0

C20_Witness ==
    /\ Len(table_rows) = 2
    /\ table_rows[1].val.proxy = "N/A"
    /\ \E i \in 1..2 : table_rows[i].val.status = Active /\ table_rows[i].val.points > 0
    /\ \E i \in 1..2 : table_rows[i].val.status \in FailureTags

====
